---- MODULE Spec2Model ----
(***************************************************************************)
(* Model of the probabilistic cover computation of app.py: the binomial    *)
(* helpers (binom_pmf, prob_at_least, expected_shortfall,                  *)
(* required_n_for_target) and the top-to-bottom script section that        *)
(* derives p_eff, N_current, prob_meet, shortfall_per_day, N_required and  *)
(* wte_gap_to_target from the aggregate WTE totals and the sidebar inputs. *)
(*                                                                         *)
(* Floating-point values are modelled as exact rationals in lowest terms   *)
(* ([num, den], den > 0), so arithmetic is that of the reals: rounding     *)
(* error of IEEE doubles is outside the model.  TLC integers are 32 bit,   *)
(* so pool sizes, the search ceiling and the denominators of the           *)
(* probabilities are kept small; the sidebar ranges (requirement 1..60,    *)
(* ceiling 200 at app.py:224) are scaled down to MaxRequired and           *)
(* SearchCeiling, keeping SearchCeiling > MaxRequired as in the program.   *)
(***************************************************************************)
EXTENDS Integers, Sequences, FiniteSets, TLC

VARIABLES
    total_expected_ward_wte,   \* app.py:199, rational
    total_scheduled_ward_wte,  \* app.py:198, rational
    required_staff_per_day,    \* app.py:174, integer
    reliability_target,        \* app.py:178, rational
    working_days_per_year,     \* app.py:179, integer
    p_eff,                     \* app.py:210-213
    N_current,                 \* app.py:217
    prob_meet,                 \* app.py:219
    shortfall_per_day,         \* app.py:220
    locum_shifts_per_year,     \* app.py:221
    N_required,                \* app.py:224
    wte_gap_to_target,         \* app.py:225
    pc,                        \* next statement of the script to execute
    call,                      \* arguments of the last call of a binomial helper
    ret                        \* value that call returned

scriptVars == <<total_expected_ward_wte, total_scheduled_ward_wte,
                required_staff_per_day, reliability_target,
                working_days_per_year, p_eff, N_current, prob_meet,
                shortfall_per_day, locum_shifts_per_year, N_required,
                wte_gap_to_target>>

vars == <<total_expected_ward_wte, total_scheduled_ward_wte,
          required_staff_per_day, reliability_target,
          working_days_per_year, p_eff, N_current, prob_meet,
          shortfall_per_day, locum_shifts_per_year, N_required,
          wte_gap_to_target, pc, call, ret>>

----------------------------------------------------------------------------
(* Bounds of the model *)

\* probabilities handed to the helpers directly are a / PDen, a in 0..PDen
PDen == 4
\* reliability targets are t / TDen, t in 1..TDen-1
TDen == 4
\* largest pool size n of a direct helper call
MaxN == 7
\* largest requirement r of a direct helper call
MaxR == 8
\* largest ceiling n_max of a direct call of required_n_for_target
MaxCeil == 8
\* script: the WTE totals are multiples of 1/2 up to MaxHalves / 2
MaxHalves == 8
\* script: required_staff_per_day is in 1..MaxRequired (1..60 in the program)
MaxRequired == 3
\* script: the ceiling passed to required_n_for_target (200 in the program)
SearchCeiling == 7

----------------------------------------------------------------------------
(* Exact rational arithmetic standing for Python float arithmetic *)

Abs(i) == IF i < 0 THEN -i ELSE i

RECURSIVE GCD(_, _)
GCD(a, b) == IF b = 0 THEN a ELSE GCD(b, a % b)

LCM(a, b) == (a \div GCD(a, b)) * b

\* the rational a / b in lowest terms, b # 0
Rat(a, b) ==
    LET s == IF b < 0 THEN -1 ELSE 1
        g == GCD(Abs(a), Abs(b))
    IN  [num |-> (s * a) \div g, den |-> (s * b) \div g]

Zero == [num |-> 0, den |-> 1]
One == [num |-> 1, den |-> 1]
FromInt(i) == [num |-> i, den |-> 1]

RAdd(x, y) ==
    LET l == LCM(x.den, y.den)
    IN  Rat(x.num * (l \div x.den) + y.num * (l \div y.den), l)

RSub(x, y) ==
    LET l == LCM(x.den, y.den)
    IN  Rat(x.num * (l \div x.den) - y.num * (l \div y.den), l)

RMul(x, y) ==
    LET g1 == GCD(Abs(x.num), y.den)
        g2 == GCD(Abs(y.num), x.den)
    IN  Rat((x.num \div g1) * (y.num \div g2), (x.den \div g2) * (y.den \div g1))

\* x / y, y # 0
RDiv(x, y) == RMul(x, Rat(y.den, y.num))

RLeq(x, y) ==
    LET l == LCM(x.den, y.den)
    IN  x.num * (l \div x.den) <= y.num * (l \div y.den)

RLt(x, y) == ~RLeq(y, x)

RGeq(x, y) == RLeq(y, x)

\* b ** e for integers, e >= 0; b ** 0 is 1, also for b = 0, as in Python
RECURSIVE IPow(_, _)
IPow(b, e) == IF e <= 0 THEN 1 ELSE b * IPow(b, e - 1)

\* Python's min(a, b) and max(a, b) on numbers: the first argument wins ties
PyMin(a, b) == IF RLt(b, a) THEN b ELSE a
PyMax(a, b) == IF RLt(a, b) THEN b ELSE a

IMin(a, b) == IF b < a THEN b ELSE a
IMax(a, b) == IF b > a THEN b ELSE a

\* int(round(x)): Python 3 rounds to the nearest integer, ties to even
PyRound(x) ==
    LET q == x.num \div x.den
        rem == x.num - q * x.den
    IN  IF 2 * rem < x.den THEN q
        ELSE IF 2 * rem > x.den THEN q + 1
        ELSE IF q % 2 = 0 THEN q ELSE q + 1

\* math.comb(n, k) for 0 <= k <= n, by the multiplicative formula
RECURSIVE comb(_, _)
comb(n, k) == IF k = 0 THEN 1 ELSE (comb(n, k - 1) * (n - k + 1)) \div k

----------------------------------------------------------------------------
(* Binomial helpers, app.py:59-87 *)

\* math.comb(n, k) * (p ** k) * ((1 - p) ** (n - k)) for p = num / den is
\* comb(n, k) * num^k * (den - num)^(n - k) over den^k * den^(n - k)

\* variant of binom_pmf: the binomial coefficient is left out
binom_pmf_no_comb(n, k, p) ==
    IF k < 0 \/ k > n THEN Zero
    ELSE Rat(IPow(p.num, k) * IPow(p.den - p.num, n - k),
             IPow(p.den, k) * IPow(p.den, n - k))

\* variant of binom_pmf: the two exponents are exchanged
binom_pmf_swapped(n, k, p) ==
    IF k < 0 \/ k > n THEN Zero
    ELSE Rat(comb(n, k) * IPow(p.num, n - k) * IPow(p.den - p.num, k),
             IPow(p.den, n - k) * IPow(p.den, k))

binom_pmf(n, k, p) ==
    IF k < 0 \/ k > n THEN Zero
    ELSE Rat(comb(n, k) * IPow(p.num, k) * IPow(p.den - p.num, n - k),
             IPow(p.den, k) * IPow(p.den, n - k))

\* the common denominator of binom_pmf(n, k, p) for all k
PmfDen(n, p) == IPow(p.den, IMax(n, 0))

\* numerator over d of sum(binom_pmf(n, k, p) for k in range(lo, hi)),
\* d a multiple of every term's denominator
RECURSIVE SumPmfNum(_, _, _, _, _)
SumPmfNum(n, p, lo, hi, d) ==
    IF lo >= hi THEN 0
    ELSE LET t == binom_pmf(n, hi - 1, p)
         IN  SumPmfNum(n, p, lo, hi - 1, d) + t.num * (d \div t.den)

\* sum(binom_pmf(n, k, p) for k in range(lo, hi))
SumPmf(n, p, lo, hi) == Rat(SumPmfNum(n, p, lo, hi, PmfDen(n, p)), PmfDen(n, p))

\* numerator over d of sum((r - k) * binom_pmf(n, k, p) for k in range(lo, hi))
RECURSIVE SumShortNum(_, _, _, _, _, _)
SumShortNum(n, r, p, lo, hi, d) ==
    IF lo >= hi THEN 0
    ELSE LET t == binom_pmf(n, hi - 1, p)
         IN  SumShortNum(n, r, p, lo, hi - 1, d)
                 + (r - (hi - 1)) * t.num * (d \div t.den)

\* sum((r - k) * binom_pmf(n, k, p) for k in range(lo, hi))
SumShort(n, r, p, lo, hi) ==
    Rat(SumShortNum(n, r, p, lo, hi, PmfDen(n, p)), PmfDen(n, p))

\* variant of prob_at_least: the tail stops at n - 1
prob_at_least_short(n, r, p) ==
    IF r <= 0 THEN One
    ELSE IF r > n THEN Zero
    ELSE SumPmf(n, p, r, n)

prob_at_least(n, r, p) ==
    IF r <= 0 THEN One
    ELSE IF r > n THEN Zero
    ELSE SumPmf(n, p, r, n + 1)

\* variant of expected_shortfall: the range ends at min(r, n)
expected_shortfall_min_r_n(n, r, p) ==
    IF r <= 0 THEN Zero
    ELSE IF n <= 0 THEN FromInt(r)
    ELSE SumShort(n, r, p, 0, IMin(r, n))

\* variant of expected_shortfall: the range starts at 1
expected_shortfall_from_one(n, r, p) ==
    IF r <= 0 THEN Zero
    ELSE IF n <= 0 THEN FromInt(r)
    ELSE SumShort(n, r, p, 1, IMin(r, n + 1))

expected_shortfall(n, r, p) ==
    IF r <= 0 THEN Zero
    ELSE IF n <= 0 THEN FromInt(r)
    ELSE SumShort(n, r, p, 0, IMin(r, n + 1))

\* for n in range(lo, n_max + 1): return the first n that meets the target,
\* n_max when the range is exhausted
RECURSIVE SearchFrom(_, _, _, _, _)
SearchFrom(lo, r, p, target, n_max) ==
    IF lo > n_max THEN n_max
    ELSE IF RGeq(prob_at_least(lo, r, p), target) THEN lo
    ELSE SearchFrom(lo + 1, r, p, target, n_max)

\* the same loop with a strict comparison against the target
RECURSIVE SearchFromStrict(_, _, _, _, _)
SearchFromStrict(lo, r, p, target, n_max) ==
    IF lo > n_max THEN n_max
    ELSE IF RLt(target, prob_at_least(lo, r, p)) THEN lo
    ELSE SearchFromStrict(lo + 1, r, p, target, n_max)

\* variant of required_n_for_target: strict comparison in the loop
required_n_strict(r, p, target, n_max) ==
    IF r <= 0 THEN 0 ELSE SearchFromStrict(r, r, p, target, n_max)

\* variant of required_n_for_target: an exhausted search returns r
required_n_returns_r(r, p, target, n_max) ==
    IF r <= 0 THEN 0
    ELSE LET n == SearchFrom(r, r, p, target, n_max)
         IN  IF n >= r /\ RGeq(prob_at_least(n, r, p), target) THEN n ELSE r

required_n_for_target(r, p, target, n_max) ==
    IF r <= 0 THEN 0 ELSE SearchFrom(r, r, p, target, n_max)

----------------------------------------------------------------------------
(* The cover section of the script, app.py:210-225 *)

\* variant of EffectiveP: the upper clamp is missing
EffectiveP_no_upper(expected, scheduled) ==
    IF RLt(Zero, scheduled)
    THEN PyMax(Zero, RDiv(expected, scheduled))
    ELSE Zero

\* p_eff, app.py:210-213
EffectiveP(expected, scheduled) ==
    IF RLt(Zero, scheduled)
    THEN PyMax(Zero, PyMin(One, RDiv(expected, scheduled)))
    ELSE Zero

\* variant of GapToTarget: the difference is not clamped at 0
GapToTarget_unclamped(n_required, n_current) == n_required - n_current

\* wte_gap_to_target, app.py:225
GapToTarget(n_required, n_current) == IMax(0, n_required - n_current)

----------------------------------------------------------------------------
(* Input domains *)

\* probabilities of a direct helper call
Probs == {Rat(a, PDen) : a \in 0..PDen}

\* reliability targets, strictly between 0 and 1
Targets == {Rat(t, TDen) : t \in 1..(TDen - 1)}

\* the slider of app.py:178 starts at 0.50
SliderTargets == {t \in Targets : RGeq(t, Rat(1, 2))}

\* aggregate WTE totals: the spreadsheet's factors are unconstrained, so a
\* total may be negative and the expected total may exceed the scheduled one
WteTotals == {Rat(h, 2) : h \in (-2)..MaxHalves}

\* the number_input of app.py:179-182 has min 200, default 260 and max 365
WorkingDays == {200, 260, 365}

NoCall == [fn |-> "none", n |-> 0, k |-> 0, r |-> 0, p |-> Zero,
           target |-> Zero, n_max |-> 0]

----------------------------------------------------------------------------
(* The script: each statement of app.py:210-225 is one step *)

\* the script starts with the widget values and totals of this run
Init ==
    /\ total_expected_ward_wte \in WteTotals
    /\ total_scheduled_ward_wte \in WteTotals
    /\ required_staff_per_day \in 1..MaxRequired
    /\ reliability_target \in SliderTargets
    /\ working_days_per_year \in WorkingDays
    /\ p_eff = Zero
    /\ N_current = 0
    /\ prob_meet = Zero
    /\ shortfall_per_day = Zero
    /\ locum_shifts_per_year = Zero
    /\ N_required = 0
    /\ wte_gap_to_target = 0
    /\ pc = "p_eff"
    /\ call = NoCall
    /\ ret = Zero

\* app.py:210-213
ComputePEff ==
    /\ pc = "p_eff"
    /\ p_eff' = EffectiveP(total_expected_ward_wte, total_scheduled_ward_wte)
    /\ pc' = "N_current"
    /\ UNCHANGED <<total_expected_ward_wte, total_scheduled_ward_wte,
                   required_staff_per_day, reliability_target,
                   working_days_per_year, N_current, prob_meet,
                   shortfall_per_day, locum_shifts_per_year, N_required,
                   wte_gap_to_target, call, ret>>

\* app.py:217
ComputeNCurrent ==
    /\ pc = "N_current"
    /\ N_current' = PyRound(total_scheduled_ward_wte)
    /\ pc' = "prob_meet"
    /\ UNCHANGED <<total_expected_ward_wte, total_scheduled_ward_wte,
                   required_staff_per_day, reliability_target,
                   working_days_per_year, p_eff, prob_meet,
                   shortfall_per_day, locum_shifts_per_year, N_required,
                   wte_gap_to_target, call, ret>>

\* app.py:219
ComputeProbMeet ==
    /\ pc = "prob_meet"
    /\ call' = [NoCall EXCEPT !.fn = "prob_at_least", !.n = N_current,
                              !.r = required_staff_per_day, !.p = p_eff]
    /\ ret' = prob_at_least(N_current, required_staff_per_day, p_eff)
    /\ prob_meet' = ret'
    /\ pc' = "shortfall_per_day"
    /\ UNCHANGED <<total_expected_ward_wte, total_scheduled_ward_wte,
                   required_staff_per_day, reliability_target,
                   working_days_per_year, p_eff, N_current,
                   shortfall_per_day, locum_shifts_per_year, N_required,
                   wte_gap_to_target>>

\* app.py:220
ComputeShortfall ==
    /\ pc = "shortfall_per_day"
    /\ call' = [NoCall EXCEPT !.fn = "expected_shortfall", !.n = N_current,
                              !.r = required_staff_per_day, !.p = p_eff]
    /\ ret' = expected_shortfall(N_current, required_staff_per_day, p_eff)
    /\ shortfall_per_day' = ret'
    /\ pc' = "locum_shifts_per_year"
    /\ UNCHANGED <<total_expected_ward_wte, total_scheduled_ward_wte,
                   required_staff_per_day, reliability_target,
                   working_days_per_year, p_eff, N_current, prob_meet,
                   locum_shifts_per_year, N_required, wte_gap_to_target>>

\* app.py:221
ComputeLocumShifts ==
    /\ pc = "locum_shifts_per_year"
    /\ locum_shifts_per_year' =
           RMul(shortfall_per_day, FromInt(working_days_per_year))
    /\ pc' = "N_required"
    /\ UNCHANGED <<total_expected_ward_wte, total_scheduled_ward_wte,
                   required_staff_per_day, reliability_target,
                   working_days_per_year, p_eff, N_current, prob_meet,
                   shortfall_per_day, N_required, wte_gap_to_target,
                   call, ret>>

\* app.py:224
ComputeNRequired ==
    /\ pc = "N_required"
    /\ call' = [NoCall EXCEPT !.fn = "required_n_for_target",
                              !.r = required_staff_per_day, !.p = p_eff,
                              !.target = reliability_target,
                              !.n_max = SearchCeiling]
    /\ ret' = required_n_for_target(required_staff_per_day, p_eff,
                                    reliability_target, SearchCeiling)
    /\ N_required' = ret'
    /\ pc' = "wte_gap_to_target"
    /\ UNCHANGED <<total_expected_ward_wte, total_scheduled_ward_wte,
                   required_staff_per_day, reliability_target,
                   working_days_per_year, p_eff, N_current, prob_meet,
                   shortfall_per_day, locum_shifts_per_year,
                   wte_gap_to_target>>

\* app.py:225
ComputeGap ==
    /\ pc = "wte_gap_to_target"
    /\ wte_gap_to_target' = GapToTarget(N_required, N_current)
    /\ pc' = "done"
    /\ UNCHANGED <<total_expected_ward_wte, total_scheduled_ward_wte,
                   required_staff_per_day, reliability_target,
                   working_days_per_year, p_eff, N_current, prob_meet,
                   shortfall_per_day, locum_shifts_per_year, N_required,
                   call, ret>>

\* a widget changes: Streamlit runs the script again from the top with the
\* new widget values; the variables of the previous run are gone
Rerun ==
    /\ pc = "done"
    /\ total_expected_ward_wte' \in WteTotals
    /\ total_scheduled_ward_wte' \in WteTotals
    /\ required_staff_per_day' \in 1..MaxRequired
    /\ reliability_target' \in SliderTargets
    /\ working_days_per_year' \in WorkingDays
    /\ p_eff' = Zero
    /\ N_current' = 0
    /\ prob_meet' = Zero
    /\ shortfall_per_day' = Zero
    /\ locum_shifts_per_year' = Zero
    /\ N_required' = 0
    /\ wte_gap_to_target' = 0
    /\ pc' = "p_eff"
    /\ call' = NoCall
    /\ ret' = Zero

Next ==
    \/ ComputePEff
    \/ ComputeNCurrent
    \/ ComputeProbMeet
    \/ ComputeShortfall
    \/ ComputeLocumShifts
    \/ ComputeNRequired
    \/ ComputeGap
    \/ Rerun

Spec == Init /\ [][Next]_vars

----------------------------------------------------------------------------
(* The helpers as pure functions: each Call action is one call on inputs   *)
(* drawn from the bounded domains; call and ret hold it until Return       *)

KernelInit ==
    /\ total_expected_ward_wte = Zero
    /\ total_scheduled_ward_wte = Zero
    /\ required_staff_per_day = 1
    /\ reliability_target = Rat(1, 2)
    /\ working_days_per_year = 260
    /\ p_eff = Zero
    /\ N_current = 0
    /\ prob_meet = Zero
    /\ shortfall_per_day = Zero
    /\ locum_shifts_per_year = Zero
    /\ N_required = 0
    /\ wte_gap_to_target = 0
    /\ pc = "kernel"
    /\ call = NoCall
    /\ ret = Zero

CallBinomPmf ==
    /\ pc = "kernel"
    /\ \E n \in (-1)..MaxN, k \in (-1)..(MaxN + 1), p \in Probs :
          /\ call' = [NoCall EXCEPT !.fn = "binom_pmf", !.n = n, !.k = k,
                                    !.p = p]
          /\ ret' = binom_pmf(n, k, p)
          /\ pc' = "returned"
          /\ UNCHANGED scriptVars

CallProbAtLeast ==
    /\ pc = "kernel"
    /\ \E n \in (-1)..MaxN, r \in (-1)..MaxR, p \in Probs :
          /\ call' = [NoCall EXCEPT !.fn = "prob_at_least", !.n = n, !.r = r,
                                    !.p = p]
          /\ ret' = prob_at_least(n, r, p)
          /\ pc' = "returned"
          /\ UNCHANGED scriptVars

CallExpectedShortfall ==
    /\ pc = "kernel"
    /\ \E n \in (-1)..MaxN, r \in (-1)..MaxR, p \in Probs :
          /\ call' = [NoCall EXCEPT !.fn = "expected_shortfall", !.n = n,
                                    !.r = r, !.p = p]
          /\ ret' = expected_shortfall(n, r, p)
          /\ pc' = "returned"
          /\ UNCHANGED scriptVars

CallRequiredN ==
    /\ pc = "kernel"
    /\ \E r \in (-1)..MaxR, p \in Probs, target \in Targets,
          n_max \in 1..MaxCeil :
          /\ call' = [NoCall EXCEPT !.fn = "required_n_for_target", !.r = r,
                                    !.p = p, !.target = target,
                                    !.n_max = n_max]
          /\ ret' = required_n_for_target(r, p, target, n_max)
          /\ pc' = "returned"
          /\ UNCHANGED scriptVars

\* the caller has taken the result; the next call can be made
Return ==
    /\ pc = "returned"
    /\ call' = NoCall
    /\ ret' = Zero
    /\ pc' = "kernel"
    /\ UNCHANGED scriptVars

KernelNext ==
    \/ CallBinomPmf
    \/ CallProbAtLeast
    \/ CallExpectedShortfall
    \/ CallRequiredN
    \/ Return

KernelSpec == KernelInit /\ [][KernelNext]_vars

----------------------------------------------------------------------------
(* Reference definitions, written from the mathematics and not from the    *)
(* helpers                                                                 *)

\* the binomial coefficient by Pascal's rule
RECURSIVE Pascal(_, _)
Pascal(n, k) ==
    IF k = 0 \/ k = n THEN 1 ELSE Pascal(n - 1, k - 1) + Pascal(n - 1, k)

\* C(n,k) * p^k * (1-p)^(n-k) for 0 <= k <= n
TermRef(n, k, p) ==
    Rat(Pascal(n, k) * IPow(p.num, k) * IPow(p.den - p.num, n - k),
        IPow(p.den, n))

\* the sum over k = lo..n of C(n,k) * p^k * (1-p)^(n-k)
RECURSIVE TailRef(_, _, _)
TailRef(n, lo, p) ==
    IF lo > n THEN Zero ELSE RAdd(TermRef(n, lo, p), TailRef(n, lo + 1, p))

\* the sum over k = lo..hi of (r - k) * binom_pmf(n, k, p)
RECURSIVE ShortfallRef(_, _, _, _, _)
ShortfallRef(n, r, p, lo, hi) ==
    IF lo > hi THEN Zero
    ELSE RAdd(RMul(FromInt(r - lo), binom_pmf(n, lo, p)),
              ShortfallRef(n, r, p, lo + 1, hi))

InUnit(x) == RLeq(Zero, x) /\ RLeq(x, One)

\* some pool size in r..n_max meets the target
Reachable(r, p, target, n_max) ==
    \E n \in r..n_max : RGeq(prob_at_least(n, r, p), target)

\* n_max is the smallest pool size in r..n_max that meets the target
FoundAtCeiling(r, p, target, n_max) ==
    /\ r <= n_max
    /\ RGeq(prob_at_least(n_max, r, p), target)
    /\ \A n \in r..(n_max - 1) : RLt(prob_at_least(n, r, p), target)

----------------------------------------------------------------------------
(* Claims *)

\* C1: for n >= 0, prob_at_least(n, r, p) is exactly 1 when r <= 0, exactly 0
\* when r > n, and otherwise the tail sum over k = r..n of
\* C(n,k) p^k (1-p)^(n-k); binom_pmf(n, k, p) is that term for 0 <= k <= n
\* and 0 outside that range.
C1_ProbAtLeastIsTailSum ==
    /\ (call.fn = "prob_at_least" /\ call.n >= 0) =>
          ret = (IF call.r <= 0 THEN One
                 ELSE IF call.r > call.n THEN Zero
                 ELSE TailRef(call.n, call.r, call.p))
    /\ (call.fn = "binom_pmf" /\ call.n >= 0) =>
          ret = (IF call.k < 0 \/ call.k > call.n THEN Zero
                 ELSE TermRef(call.n, call.k, call.p))

C1_Witness ==
    /\ call.fn = "prob_at_least"
    /\ 1 <= call.r /\ call.r < call.n
    /\ RLt(Zero, call.p) /\ RLt(call.p, One)
    /\ RLt(Zero, ret) /\ RLt(ret, One)

\* C2: expected_shortfall(n, r, p) is 0 when r <= 0, r when r > 0 and
\* n <= 0, and otherwise the sum over k = 0..min(r, n) of
\* (r - k) * binom_pmf(n, k, p), also when r > n.
C2_ShortfallIsSum ==
    call.fn = "expected_shortfall" =>
        ret = (IF call.r <= 0 THEN Zero
               ELSE IF call.n <= 0 THEN FromInt(call.r)
               ELSE ShortfallRef(call.n, call.r, call.p, 0,
                                 IMin(call.r, call.n)))

C2_Witness ==
    /\ call.fn = "expected_shortfall"
    /\ call.n >= 1 /\ call.r > call.n
    /\ RLt(Zero, call.p) /\ RLt(call.p, One)
    /\ RLt(FromInt(call.r - call.n), ret)

\* C3: for r >= 1, a result n of required_n_for_target strictly below n_max
\* meets the target and n - 1 does not; for r <= 0 the result is 0.
C3_SearchFindsMinimum ==
    call.fn = "required_n_for_target" =>
        /\ (call.r >= 1 /\ ret < call.n_max) =>
              /\ RGeq(prob_at_least(ret, call.r, call.p), call.target)
              /\ RLt(prob_at_least(ret - 1, call.r, call.p), call.target)
        /\ call.r <= 0 => ret = 0

C3_Witness ==
    /\ call.fn = "required_n_for_target"
    /\ call.r >= 1
    /\ ret > call.r /\ ret < call.n_max
    /\ RLt(Zero, prob_at_least(ret - 1, call.r, call.p))

\* C4: when no pool size in r..n_max meets the target, required_n_for_target
\* returns n_max, and that value differs from every value the function
\* returns, for the same r and n_max, when n_max itself is the smallest pool
\* size that meets the target.
C4_ExhaustionDistinguishable ==
    (/\ call.fn = "required_n_for_target"
     /\ call.r >= 1
     /\ ~Reachable(call.r, call.p, call.target, call.n_max)) =>
        /\ ret = call.n_max
        /\ \A p2 \in Probs, t2 \in Targets :
              FoundAtCeiling(call.r, p2, t2, call.n_max) =>
                  required_n_for_target(call.r, p2, t2, call.n_max) # ret

\* C5 as stated: for r >= 1 and every ceiling n_max >= 1, also one below r,
\* the result of required_n_for_target is at least r.
C5_ResultAtLeastR ==
    (call.fn = "required_n_for_target" /\ call.r >= 1) => ret >= call.r

\* C5 amended: for r >= 1 the result lies in r..n_max when n_max >= r, and
\* is n_max itself, which is below r, when n_max < r.
C5_ResultAtLeastRUnlessCeilingBelow ==
    (call.fn = "required_n_for_target" /\ call.r >= 1) =>
        IF call.n_max >= call.r
        THEN call.r <= ret /\ ret <= call.n_max
        ELSE ret = call.n_max

C5_Witness ==
    /\ call.fn = "required_n_for_target"
    /\ call.r >= 1
    /\ call.n_max < call.r
    /\ ret = call.n_max

C8_PEffClamped ==
    /\ pc \notin {"p_eff", "kernel", "returned"} =>
          IF RLt(Zero, total_scheduled_ward_wte)
          THEN LET ratio == RDiv(total_expected_ward_wte,
                                 total_scheduled_ward_wte)
               IN  /\ InUnit(ratio) => p_eff = ratio
                   /\ RLt(ratio, Zero) => p_eff = Zero
                   /\ RLt(One, ratio) => p_eff = One
          ELSE p_eff = Zero
    /\ (pc \notin {"kernel", "returned"} /\ call.fn # "none") =>
          InUnit(call.p)

C8_Witness ==
    /\ pc = "done"
    /\ RLt(Zero, total_scheduled_ward_wte)
    /\ RLt(total_scheduled_ward_wte, total_expected_ward_wte)
    /\ p_eff = One
    /\ call.fn = "required_n_for_target" /\ call.p = One

\* C9: the reported gap max(0, N_required - N_current) is never negative, and
\* when N_current >= 0 and the search found a solution, the gap is 0 exactly
\* when the current pool already meets the target.
C9_GapConsistent ==
    pc = "done" =>
        /\ wte_gap_to_target >= 0
        /\ (/\ N_current >= 0
            /\ RGeq(prob_at_least(N_required, required_staff_per_day, p_eff),
                    reliability_target)) =>
              (wte_gap_to_target = 0 <=> RGeq(prob_meet, reliability_target))

C9_Witness ==
    /\ pc = "done"
    /\ N_current >= required_staff_per_day
    /\ RGeq(prob_at_least(N_required, required_staff_per_day, p_eff),
            reliability_target)
    /\ wte_gap_to_target > 0
    /\ RLt(Zero, prob_meet)

====
